---- MODULE Spec2Model ----
(***************************************************************************)
(* Trajectory (controllers/TrajectoryLibrary/Trajectory.cpp): loading of   *)
(* the state, control, gain, affine and rollout tables from CSV files, the *)
(* time-to-index mapping and the time-indexed accessors.                   *)
(*                                                                         *)
(* Time is measured in integer ticks.  Every timestamp and query time of   *)
(* the model is a small integer, which float and double represent exactly, *)
(* so t/dt_, fmod(t, dt_) and 0.5f*dt_ are computed without rounding and   *)
(* the integer arithmetic below is the arithmetic of the code.  A residual *)
(* on the tick grid is an integer, so "residual > 5*epsilon" is            *)
(* "residual > 0".                                                         *)
(***************************************************************************)
EXTENDS Integers, Sequences, FiniteSets, TLC

(***************************************************************************)
(* Bounds of the model.                                                    *)
(***************************************************************************)
\* most data rows of a CSV file
MaxRows == 3
\* the even gap between the timestamps of a file is at most MaxGap ticks
MaxGap == 3

(***************************************************************************)
(* Matrices (Eigen::MatrixXd) and CSV files.                               *)
(***************************************************************************)
\* a default-constructed Eigen::MatrixXd is 0 x 0
EmptyMatrix == [rows |-> 0, cols |-> 0, data |-> <<>>]

\* a file CsvParser_getHeader returns NULL for: unreadable, or without header
NoFile == [header |-> FALSE, ncols |-> 0, lines |-> <<>>]

\* the value written in column j > 1 of data row r: "varying" numbers every
\* cell of the table differently, "constant" repeats the first row
Cell(fill, r, j) == IF fill = "varying" THEN 10 * (r - 1) + (j - 1) ELSE j - 1

\* the n timestamps that start at `start` and advance by `gap`, but for the
\* last one, which advances by `last`
Stamps(n, start, gap, last) ==
    [r \in 1..n |-> IF r = 1 THEN start
                    ELSE IF r < n \/ n = 2 THEN start + (r - 1) * gap
                    ELSE start + (r - 2) * gap + last]

\* a rectangular CSV file with a header of ncols fields and one line per stamp
CsvFile(ncols, stamps, fill) ==
    [header |-> TRUE, ncols |-> ncols,
     lines  |-> [r \in 1..Len(stamps) |->
                   [j \in 1..ncols |-> IF j = 1 THEN stamps[r] ELSE Cell(fill, r, j)]]]

\* first timestamps of the state file
Starts == {0, 1}

\* the even gap of a file: decreasing, repeated or increasing timestamps
Gaps == (0 - 1)..MaxGap

\* timestamps evenly spaced but for the last gap, which is one tick less, the
\* same or one tick more (state file)
AnyStamps ==
    UNION { {Stamps(n, s, g, l) : n \in 0..MaxRows, s \in Starts, l \in {g - 1, g, g + 1}}
            : g \in Gaps }

\* evenly spaced timestamps
EvenStamps(starts, gaps) ==
    {Stamps(n, s, g, g) : n \in 0..MaxRows, s \in starts, g \in gaps}

StateDims == {2}
ControlDims == {1, 2}

XFiles == {NoFile} \cup {CsvFile(d + 1, ts, "varying") : d \in StateDims, ts \in AnyStamps}
UFiles == {NoFile} \cup {CsvFile(u + 1, ts, "varying") : u \in ControlDims, ts \in EvenStamps({0}, {1})}
KFiles == {NoFile} \cup
          {CsvFile(d * u + 1, ts, fill) :
              d \in StateDims, u \in ControlDims, ts \in EvenStamps({0}, {1}),
              fill \in {"varying", "constant"}}
AffineFiles == {NoFile} \cup
               {CsvFile(u + 1, ts, "varying") : u \in ControlDims, ts \in EvenStamps({0}, {1, 2})}
RolloutFiles == {NoFile} \cup
                {CsvFile(d + 1, ts, "varying") : d \in StateDims, ts \in EvenStamps({1}, {0 - 1, 1})}

\* query times: from one tick before the earliest timestamp of any file to one
\* tick after the latest
QueryTimes == (0 - MaxRows - 1)..(1 + (MaxRows - 1) * MaxGap + 2)

(***************************************************************************)
(* File-name prefixes, as sequences of characters.                         *)
(***************************************************************************)
Digits == <<"0", "1", "2", "3", "4", "5", "6", "7", "8", "9">>
IsDigit(c) == \E d \in 1..10 : Digits[d] = c
DigitValue(c) == (CHOOSE d \in 1..10 : Digits[d] = c) - 1

Prefixes == { <<"t", "-", "0", "0", "0", "4", "2">>,
              <<"t", "r", "a", "j", "-", "x">>,
              <<"0", "4", "2">> }

RECURSIVE ParseDigits(_, _, _)
\* std::stoi on a string without sign or blanks: the value of the longest
\* prefix of digits of s from position i on, acc being the value so far
ParseDigits(s, i, acc) ==
    IF i > Len(s) \/ ~IsDigit(s[i]) THEN acc
    ELSE ParseDigits(s, i + 1, 10 * acc + DigitValue(s[i]))

\* filename_prefix.substr(length - 5, 5) followed by std::stoi: "threw" when
\* the prefix is shorter than 5 characters (std::out_of_range) or the
\* substring starts with no digit (std::invalid_argument)
ParseTrajectoryNumber(prefix) ==
    IF Len(prefix) < 5 THEN [threw |-> TRUE, value |-> 0]
    ELSE LET str == SubSeq(prefix, Len(prefix) - 4, Len(prefix))
         IN  IF ~IsDigit(str[1]) THEN [threw |-> TRUE, value |-> 0]
             ELSE [threw |-> FALSE, value |-> ParseDigits(str, 1, 0)]

(***************************************************************************)
(* LoadMatrixFromCSV.                                                      *)
(***************************************************************************)
RECURSIVE ReadRows(_, _, _)
\* the row loop from row row_num (0-based) on, with dt the value of dt_:
\* row 1 sets dt_, each later row exits when its gap exceeds dt_
ReadRows(lines, row_num, dt) ==
    IF row_num >= Len(lines) THEN [dt |-> dt, exit |-> FALSE]
    ELSE IF row_num = 1
         THEN ReadRows(lines, row_num + 1, lines[2][1] - lines[1][1])
    ELSE IF row_num > 1 /\ lines[row_num + 1][1] - lines[row_num][1] - dt > 0
         THEN [dt |-> dt, exit |-> TRUE]
    ELSE ReadRows(lines, row_num + 1, dt)

\* the matrix and dt_ after the call, or exit: a NULL header returns at once
\* and leaves both as they were
LoadMatrixFromCSV(file, matrix, dt) ==
    IF ~file.header THEN [matrix |-> matrix, dt |-> dt, exit |-> FALSE]
    ELSE LET r == ReadRows(file.lines, 0, dt)
         IN  [matrix |-> [rows |-> Len(file.lines), cols |-> file.ncols,
                          data |-> file.lines],
              dt |-> r.dt, exit |-> r.exit]

(***************************************************************************)
(* The checks of LoadTrajectory.                                           *)
(***************************************************************************)
\* a slip: the row-count check leaves the affine table out
ConsistentTablesNoAffineRows(x, u, k, a) ==
    LET dimension == x.cols - 1
        udimension == u.cols - 1
    IN  /\ ~(k.cols - 1 # dimension * udimension)
        /\ ~(a.cols - 1 # udimension)
        /\ ~(x.rows # u.rows \/ x.rows # k.rows)

\* TRUE when none of the three checks exits
ConsistentTables(x, u, k, a) ==
    LET dimension == x.cols - 1
        udimension == u.cols - 1
    IN  /\ ~(k.cols - 1 # dimension * udimension)
        /\ ~(a.cols - 1 # udimension)
        /\ ~(x.rows # u.rows \/ x.rows # k.rows \/ x.rows # a.rows)

\* every row of the gain table carries the same gains as every other row
IsTimeInvariant(k) ==
    \A r1, r2 \in 1..k.rows : \A j \in 2..k.cols : k.data[r1][j] = k.data[r2][j]

(***************************************************************************)
(* State.                                                                  *)
(***************************************************************************)
VARIABLES
    pc,                 \* position of the program in the object's life
    files,              \* the file each LoadMatrixFromCSV call has opened
    trajectory_number_, dimension_, udimension_, filename_prefix_, dt_,
    xpoints_, upoints_, kpoints_, affine_points_, xpoints_rollout_,
    prefix_arg,         \* the filename_prefix argument of LoadTrajectory
    ret                 \* the last accessor call and what it returned

fields == <<trajectory_number_, dimension_, udimension_, filename_prefix_, dt_>>
tables == <<xpoints_, upoints_, kpoints_, affine_points_, xpoints_rollout_>>
vars == <<pc, files, prefix_arg, fields, tables, ret>>

NoCall == [op |-> "none", t |-> 0, use_rollout |-> FALSE, index |-> 0,
           status |-> "none", vec |-> <<>>, mat |-> <<>>]

\* Trajectory::Trajectory()
Init ==
    /\ pc = "constructed"
    /\ files = [n \in {"x", "u", "controller", "affine", "rollout"} |-> NoFile]
    /\ prefix_arg = <<>>
    /\ trajectory_number_ = 0 - 1
    /\ dimension_ = 0
    /\ udimension_ = 0
    /\ filename_prefix_ = <<>>
    /\ dt_ = 0
    /\ xpoints_ = EmptyMatrix
    /\ upoints_ = EmptyMatrix
    /\ kpoints_ = EmptyMatrix
    /\ affine_points_ = EmptyMatrix
    /\ xpoints_rollout_ = EmptyMatrix
    /\ ret = NoCall

(***************************************************************************)
(* LoadTrajectory, one step per call it makes.  exit(1) ends the program:  *)
(* pc becomes "exited" and nothing is done with the object afterwards.     *)
(***************************************************************************)
\* entry: the trajectory number is parsed from the prefix, which `prefix_arg`
\* keeps for the rest of the call
LoadTrajectory(prefix) ==
    /\ pc = "constructed"
    /\ LET n == ParseTrajectoryNumber(prefix)
       IN  IF n.threw
           THEN /\ pc' = "threw"
                /\ UNCHANGED trajectory_number_
           ELSE /\ pc' = "load_x"
                /\ trajectory_number_' = n.value
    /\ prefix_arg' = prefix
    /\ UNCHANGED <<files, dimension_, udimension_, filename_prefix_, dt_, tables, ret>>

LoadX(file) ==
    /\ pc = "load_x"
    /\ files' = [files EXCEPT !["x"] = file]
    /\ LET r == LoadMatrixFromCSV(file, xpoints_, dt_)
       IN  IF r.exit
           THEN pc' = "exited" /\ UNCHANGED <<xpoints_, dt_>>
           ELSE pc' = "load_u" /\ xpoints_' = r.matrix /\ dt_' = r.dt
    /\ UNCHANGED <<prefix_arg, trajectory_number_, dimension_, udimension_, filename_prefix_,
                   upoints_, kpoints_, affine_points_, xpoints_rollout_, ret>>

LoadU(file) ==
    /\ pc = "load_u"
    /\ files' = [files EXCEPT !["u"] = file]
    /\ LET r == LoadMatrixFromCSV(file, upoints_, dt_)
       IN  IF r.exit
           THEN pc' = "exited" /\ UNCHANGED <<upoints_, dt_>>
           ELSE pc' = "load_controller" /\ upoints_' = r.matrix /\ dt_' = r.dt
    /\ UNCHANGED <<prefix_arg, trajectory_number_, dimension_, udimension_, filename_prefix_,
                   xpoints_, kpoints_, affine_points_, xpoints_rollout_, ret>>

LoadController(file) ==
    /\ pc = "load_controller"
    /\ files' = [files EXCEPT !["controller"] = file]
    /\ LET r == LoadMatrixFromCSV(file, kpoints_, dt_)
       IN  IF r.exit
           THEN pc' = "exited" /\ UNCHANGED <<kpoints_, dt_>>
           ELSE pc' = "load_affine" /\ kpoints_' = r.matrix /\ dt_' = r.dt
    /\ UNCHANGED <<prefix_arg, trajectory_number_, dimension_, udimension_, filename_prefix_,
                   xpoints_, upoints_, affine_points_, xpoints_rollout_, ret>>

\* the affine table, and then the dimensions and the three checks
LoadAffine(file) ==
    /\ pc = "load_affine"
    /\ files' = [files EXCEPT !["affine"] = file]
    /\ LET r == LoadMatrixFromCSV(file, affine_points_, dt_)
       IN  IF r.exit
           THEN /\ pc' = "exited"
                /\ UNCHANGED <<affine_points_, dt_, filename_prefix_, dimension_, udimension_>>
           ELSE /\ affine_points_' = r.matrix
                /\ dt_' = r.dt
                /\ filename_prefix_' = prefix_arg
                /\ dimension_' = xpoints_.cols - 1
                /\ udimension_' = upoints_.cols - 1
                /\ pc' = IF ~ConsistentTables(xpoints_, upoints_, kpoints_, r.matrix)
                         THEN "exited"
                         ELSE IF IsTimeInvariant(kpoints_) THEN "load_rollout"
                         ELSE "loaded"
    /\ UNCHANGED <<prefix_arg, trajectory_number_,
                   xpoints_, upoints_, kpoints_, xpoints_rollout_, ret>>

LoadRollout(file) ==
    /\ pc = "load_rollout"
    /\ files' = [files EXCEPT !["rollout"] = file]
    /\ LET r == LoadMatrixFromCSV(file, xpoints_rollout_, dt_)
       IN  IF r.exit
           THEN pc' = "exited" /\ UNCHANGED <<xpoints_rollout_, dt_>>
           ELSE pc' = "loaded" /\ xpoints_rollout_' = r.matrix /\ dt_' = r.dt
    /\ UNCHANGED <<prefix_arg, trajectory_number_, dimension_, udimension_, filename_prefix_,
                   xpoints_, upoints_, kpoints_, affine_points_, ret>>

Load ==
    \/ \E prefix \in Prefixes : LoadTrajectory(prefix)
    \/ \E file \in XFiles : LoadX(file)
    \/ \E file \in UFiles : LoadU(file)
    \/ \E file \in KFiles : LoadController(file)
    \/ \E file \in AffineFiles : LoadAffine(file)
    \/ \E file \in RolloutFiles : LoadRollout(file)

(***************************************************************************)
(* GetIndexFromTime.                                                       *)
(***************************************************************************)
\* what a read outside a matrix may yield as a double
UndefinedDoubles == {0, 1}
\* what the conversion to int of an infinite or NaN quotient may yield
\* (INT_MIN, -1, 0, INT_MAX)
UndefinedInts == {0 - 2^30 - 2^30, 0 - 1, 0, 2^30 - 1 + 2^30}

Abs(a) == IF a < 0 THEN 0 - a ELSE a
\* int(a / b) for b # 0: the conversion truncates toward zero
TruncDiv(a, b) ==
    LET q == Abs(a) \div Abs(b) IN IF (a < 0) # (b < 0) THEN 0 - q ELSE q
\* fmod(a, b) for b # 0: the remainder has the sign of a
Fmod(a, b) == a - b * TruncDiv(a, b)

\* m(r, 0), r counted from 0: a read outside the matrix is undefined
TimeAt(m, r) == IF r \in 0..(m.rows - 1) THEN {m.data[r + 1][1]} ELSE UndefinedDoubles

\* the index returned for t0 <= t <= tf, dt # 0
RoundedIndex(t, t0, dt) ==
    LET num_dts == TruncDiv(t, dt)
        remainder == Fmod(t, dt)
        starting_dts == TruncDiv(t0, dt)
    IN  (IF 2 * remainder > dt THEN num_dts + 1 ELSE num_dts) + starting_dts

\* a slip: above tf the row count is returned instead of the last index
ClampedIndexRowCount(m, dt, t, t0, tf) ==
    IF t < t0 THEN {0}
    ELSE IF t > tf THEN {m.rows}
    ELSE IF dt = 0 THEN UndefinedInts
    ELSE {RoundedIndex(t, t0, dt)}

\* the index for time t between bounds t0 and tf read from matrix m
ClampedIndex(m, dt, t, t0, tf) ==
    IF t < t0 THEN {0}
    ELSE IF t > tf THEN {m.rows - 1}
    ELSE IF dt = 0 THEN UndefinedInts
    ELSE {RoundedIndex(t, t0, dt)}

\* the indices GetIndexFromTime(t, use_rollout) may return
GetIndexFromTime(x, rollout, dt, t, use_rollout) ==
    LET m == IF ~use_rollout THEN x ELSE rollout
    IN  UNION { UNION { ClampedIndex(m, dt, t, t0, tf) : tf \in TimeAt(m, m.rows - 1) }
                : t0 \in TimeAt(m, 0) }

(***************************************************************************)
(* Accessors.  They read the object and leave it as it is, so a call made  *)
(* after another one starts from the same object: a behaviour makes one    *)
(* call, recorded in ret.                                                  *)
(***************************************************************************)
\* a read outside a matrix either stops the program (Eigen's assertion) or
\* yields a value that is not a value of the table
Undefined == {[status |-> "abort", vec |-> <<>>, mat |-> <<>>],
              [status |-> "garbage", vec |-> <<>>, mat |-> <<>>]}

\* m.row(index).tail(m.cols() - 1)
RowTail(m, index) ==
    IF index \in 0..(m.rows - 1) /\ m.cols >= 1
    THEN {[status |-> "ok", vec |-> SubSeq(m.data[index + 1], 2, m.cols), mat |-> <<>>]}
    ELSE Undefined

\* the udimension_ x dimension_ matrix unpacked from row `index` of k
UnpackGain(k, dimension, udimension, index) ==
    IF /\ index \in 0..(k.rows - 1)
       /\ dimension >= 0 /\ udimension >= 0
       /\ \A i \in 0..(udimension - 1) : i * dimension + 1 + dimension <= k.cols
    THEN {[status |-> "ok", vec |-> <<>>,
           mat |-> [i \in 1..udimension |->
                      [j \in 1..dimension |-> k.data[index + 1][(i - 1) * dimension + 1 + j]]]]}
    ELSE Undefined

Returned(op, t, use_rollout, index, out) ==
    [op |-> op, t |-> t, use_rollout |-> use_rollout, index |-> index,
     status |-> out.status, vec |-> out.vec, mat |-> out.mat]

QueryIndex(t, use_rollout) ==
    /\ pc = "loaded" /\ ret.op = "none"
    /\ \E index \in GetIndexFromTime(xpoints_, xpoints_rollout_, dt_, t, use_rollout) :
          ret' = Returned("GetIndexFromTime", t, use_rollout, index,
                          [status |-> "ok", vec |-> <<>>, mat |-> <<>>])
    /\ UNCHANGED <<pc, files, prefix_arg, fields, tables>>

GetState(t) ==
    /\ pc = "loaded" /\ ret.op = "none"
    /\ \E index \in GetIndexFromTime(xpoints_, xpoints_rollout_, dt_, t, FALSE) :
          \E out \in RowTail(xpoints_, index) :
             ret' = Returned("GetState", t, FALSE, index, out)
    /\ UNCHANGED <<pc, files, prefix_arg, fields, tables>>

GetUCommand(t) ==
    /\ pc = "loaded" /\ ret.op = "none"
    /\ \E index \in GetIndexFromTime(xpoints_, xpoints_rollout_, dt_, t, FALSE) :
          \E out \in RowTail(upoints_, index) :
             ret' = Returned("GetUCommand", t, FALSE, index, out)
    /\ UNCHANGED <<pc, files, prefix_arg, fields, tables>>

GetRolloutState(t) ==
    /\ pc = "loaded" /\ ret.op = "none"
    /\ \E index \in GetIndexFromTime(xpoints_, xpoints_rollout_, dt_, t, TRUE) :
          \E out \in RowTail(xpoints_rollout_, index) :
             ret' = Returned("GetRolloutState", t, TRUE, index, out)
    /\ UNCHANGED <<pc, files, prefix_arg, fields, tables>>

GetGainMatrix(t) ==
    /\ pc = "loaded" /\ ret.op = "none"
    /\ \E index \in GetIndexFromTime(xpoints_, xpoints_rollout_, dt_, t, FALSE) :
          \E out \in UnpackGain(kpoints_, dimension_, udimension_, index) :
             ret' = Returned("GetGainMatrix", t, FALSE, index, out)
    /\ UNCHANGED <<pc, files, prefix_arg, fields, tables>>

Query ==
    \/ \E t \in QueryTimes, use_rollout \in BOOLEAN : QueryIndex(t, use_rollout)
    \/ \E t \in QueryTimes : GetState(t)
    \/ \E t \in QueryTimes : GetUCommand(t)
    \/ \E t \in QueryTimes : GetRolloutState(t)
    \/ \E t \in QueryTimes : GetGainMatrix(t)

Next == Load \/ Query

Spec == Init /\ [][Next]_vars

(***************************************************************************)
(* Vocabulary of the properties.                                           *)
(***************************************************************************)
Loaded == pc = "loaded"
Required == {"x", "u", "controller", "affine"}
TableOf(n) ==
    CASE n = "x" -> xpoints_
      [] n = "u" -> upoints_
      [] n = "controller" -> kpoints_
      [] n = "affine" -> affine_points_
      [] n = "rollout" -> xpoints_rollout_
\* timestamp of row r (counted from 0) of a table
Time(m, r) == m.data[r + 1][1]
FirstGap(m) == Time(m, 1) - Time(m, 0)
LastIndex(m) == m.rows - 1
EvenlySpaced(m) ==
    \A r \in 2..LastIndex(m) : Time(m, r) - Time(m, r - 1) = FirstGap(m)
Distance(a, b) == IF a < b THEN b - a ELSE a - b
\* an accessor has returned; Chosen is the table its index was computed for
Called == Loaded /\ ret.op # "none"
Chosen == IF ret.use_rollout THEN xpoints_rollout_ ELSE xpoints_
\* a load of four readable files whose state table has at least two rows,
\* evenly spaced by a positive dt that dt_ holds
WellFormed ==
    /\ Loaded
    /\ \A n \in Required : files[n].header
    /\ xpoints_.rows >= 2
    /\ EvenlySpaced(xpoints_)
    /\ FirstGap(xpoints_) > 0
    /\ dt_ = FirstGap(xpoints_)

\* C1: for a loaded trajectory with at least two rows, the index of the
\* first timestamp is 0 and the index of the last timestamp is the last index
\* of the state table, whatever the first timestamp is.
C1_FirstAndLastIndex ==
    (WellFormed /\ ret.op = "GetIndexFromTime" /\ ~ret.use_rollout) =>
        /\ ret.t = Time(xpoints_, 0) => ret.index = 0
        /\ ret.t = Time(xpoints_, LastIndex(xpoints_)) => ret.index = LastIndex(xpoints_)

\* C2: the index is monotonically non-decreasing in the query time: for all
\* query times t1 <= t2 of a loaded trajectory, no index returned for t1
\* exceeds an index returned for t2.
C2_Monotonic ==
    WellFormed =>
        \A t1, t2 \in QueryTimes :
            t1 <= t2 =>
                \A i1 \in GetIndexFromTime(xpoints_, xpoints_rollout_, dt_, t1, FALSE) :
                    \A i2 \in GetIndexFromTime(xpoints_, xpoints_rollout_, dt_, t2, FALSE) :
                        i1 <= i2

\* C3 as stated: below the first timestamp of the chosen table the index is 0,
\* and above its last timestamp the index is the last index of that table.
C3_ClampingAsStated ==
    (Called /\ Chosen.rows >= 1) =>
        /\ ret.t < Time(Chosen, 0) => ret.index = 0
        /\ ret.t > Time(Chosen, LastIndex(Chosen)) => ret.index = LastIndex(Chosen)

\* C3 as amended: below the first timestamp of the chosen table the index is
\* 0, and at or above the first timestamp and above the last timestamp the
\* index is the last index of that table.
C3_Clamping ==
    (Called /\ Chosen.rows >= 1) =>
        /\ ret.t < Time(Chosen, 0) => ret.index = 0
        /\ (ret.t >= Time(Chosen, 0) /\ ret.t > Time(Chosen, LastIndex(Chosen)))
              => ret.index = LastIndex(Chosen)

\* a rollout accessor was called above the last time of a rollout table of
\* three rows or more and got its last index
C3_Witness ==
    /\ Called /\ ret.use_rollout
    /\ xpoints_rollout_.rows >= 3
    /\ ret.t >= Time(xpoints_rollout_, 0)
    /\ ret.t > Time(xpoints_rollout_, LastIndex(xpoints_rollout_))
    /\ ret.index = LastIndex(xpoints_rollout_)

\* C4: inside the time bounds the index is that of the stored sample closest
\* to the query time, and of the later sample when the query time lies
\* exactly halfway between two samples.
C4_NearestSample ==
    (WellFormed /\ ret.op # "none" /\ ~ret.use_rollout
       /\ Time(xpoints_, 0) <= ret.t /\ ret.t <= Time(xpoints_, LastIndex(xpoints_))) =>
        /\ ret.index \in 0..LastIndex(xpoints_)
        /\ \A r \in 0..LastIndex(xpoints_) :
             Distance(Time(xpoints_, ret.index), ret.t) <= Distance(Time(xpoints_, r), ret.t)
        /\ \A r \in 1..LastIndex(xpoints_) :
             (ret.t - Time(xpoints_, r - 1) = Time(xpoints_, r) - ret.t) => ret.index = r

\* C5: no table whose successive timestamps differ from its first gap, in
\* either direction, survives a load: every table of a loaded trajectory is
\* evenly spaced.
C5_ConstantTimestep ==
    Loaded => \A n \in Required \cup {"rollout"} : EvenlySpaced(TableOf(n))

\* C6: a load that completes leaves state, control, gain and affine tables
\* of equal row counts, a gain table of stateDim*controlDim + 1 columns and
\* an affine table of controlDim + 1 columns, the dimensions being the column
\* counts of the state and control tables minus one and every readable file
\* being the table it was loaded into; so files that violate one of these
\* do not load.
C6_ConsistentTables ==
    Loaded =>
        /\ xpoints_.rows = upoints_.rows
        /\ xpoints_.rows = kpoints_.rows
        /\ xpoints_.rows = affine_points_.rows
        /\ dimension_ = xpoints_.cols - 1
        /\ udimension_ = upoints_.cols - 1
        /\ kpoints_.cols = dimension_ * udimension_ + 1
        /\ affine_points_.cols = udimension_ + 1
        /\ \A n \in Required :
             files[n].header =>
                /\ TableOf(n).rows = Len(files[n].lines)
                /\ TableOf(n).cols = files[n].ncols

\* four readable files of the greatest row count and two controls are loaded
C6_Witness ==
    /\ Loaded
    /\ \A n \in Required : files[n].header
    /\ xpoints_.rows = MaxRows
    /\ udimension_ = 2 /\ dimension_ = 2

\* C7: after a load dt_ is the difference of the first two timestamps of the
\* state table, and every loaded table of two rows or more has that period.
C7_DtOfStateTable ==
    (Loaded /\ (\A n \in Required : files[n].header) /\ xpoints_.rows >= 2) =>
        /\ dt_ = FirstGap(xpoints_)
        /\ \A n \in Required \cup {"rollout"} :
             TableOf(n).rows >= 2 => FirstGap(TableOf(n)) = FirstGap(xpoints_)

\* C8: for every query time the gain matrix has controlDim rows and stateDim
\* columns and its entry (i, j) is column i*stateDim + 1 + j of the gain-table
\* row at the index of the query time.
C8_GainMatrix ==
    (WellFormed /\ ret.op = "GetGainMatrix") =>
        /\ ret.status = "ok"
        /\ ret.index \in 0..LastIndex(kpoints_)
        /\ Len(ret.mat) = udimension_
        /\ \A i \in 0..(udimension_ - 1) :
             /\ Len(ret.mat[i + 1]) = dimension_
             /\ \A j \in 0..(dimension_ - 1) :
                  ret.mat[i + 1][j + 1] = kpoints_.data[ret.index + 1][i * dimension_ + 1 + j + 1]

\* C9: loading is all-or-nothing: a load that completes has read all four
\* required files and populated all four required tables.
C9_AllOrNothing ==
    Loaded => \A n \in Required : files[n].header /\ TableOf(n).cols >= 1

\* C10: every index an accessor computes lies within the table it indexes,
\* so state, control and gain accessors read a row of their table.
C10_IndexInRange ==
    (WellFormed /\ ret.op \in {"GetState", "GetUCommand", "GetGainMatrix"}) =>
        /\ ret.index \in 0..LastIndex(xpoints_)
        /\ ret.status = "ok"

====
